---- MODULE Spec2Model ----
(***************************************************************************)
(* Model of the Stanford Who scraper (src/stanford-who/stanfordwho_scraper.py). *)
(* The scraper is one sequential process; the browser it drives is the     *)
(* environment: it renders pages asynchronously and replaces elements, so  *)
(* that element handles held by the scraper go stale.  One action is one   *)
(* WebDriver command (or a run of commands whose exceptions are handled    *)
(* alike) of the scraper, or one step of the browser.                      *)
(***************************************************************************)
EXTENDS Integers, Sequences, FiniteSets, TLC

(* ------------------------------ bounds --------------------------------- *)
MaxPages == 2        \* pages of the directory
MaxCards == 2        \* result cards per page
MaxLag == 1          \* clicks made while an earlier navigation is still in flight
MaxWait == 2         \* seconds given with --wait
MaxMatch == 2        \* matches of one candidate selector (find_cards inputs)
MaxLines == 3        \* lines of the text of a card (parse_card inputs)
MaxTitles == 2       \* title selectors that match in a card (parse_card inputs)
MaxEvents == 6       \* parser events fed to one ContactNameExtractor

VARIABLES
    \* the directory and the configuration (fixed during a session)
    numPages,           \* pages of the directory
    layout,             \* kinds of the cards of a page, in order
    ALLOW_PROFILE_NAV,  \* --follow-profile
    card,               \* the card given to parse_card run on its own
    \* the browser
    shown,              \* page whose document is in the main context
    pending,            \* target of the navigation in flight, 0 if none
    cardsUp,            \* the result cards of `shown` are rendered
    pagerUp,            \* the pagination region of `shown` is rendered
    pager,              \* the pagination region as rendered (NoPager if not)
    lag,                \* clicks made while a navigation was in flight
    secondary,          \* open secondary browsing contexts
    focus,              \* context the driver is switched to
    driverUp,           \* the browser launched by main has not been quit
    \* scrape_results
    pc,                 \* position of the scraper
    page_index,
    elapsed,            \* seconds slept in the Discover loop of this page
    cards,              \* the element list held by the for loop: [page, n, stale]
    ci,                 \* index of the card being parsed
    written,            \* rows handed to the csv writer
    flushed,            \* rows that had been written at the last f.flush()
    flushes,            \* number of f.flush() calls
    fileOpen,           \* the with block of scrape_results holds the file open
    \* parse_card and get_email_from_profile locals
    name_el,            \* name_el is not None
    email,              \* an email was found
    \* click_next_if_available locals and result
    active,             \* active_page_els: [sel, stale], sel = 0 for the empty list
    next_page_num,
    link,               \* next_links[0] or btn: [target, stale]
    fb,                 \* index of the fallback selector being tried
    moved,              \* last value returned by click_next_if_available
    clicks,             \* successful clicks of the running/last call
    raised,             \* an except clause of the running/last call has run
    \* find_cards on its own
    fc_counts,          \* matches of each candidate selector
    fc_out,             \* value returned, or NotRun
    \* parse_card on its own
    row,                \* the PersonRow returned, None, or NotParsed
    \* src/parse_contacts.py
    parser,             \* the attributes of a ContactNameExtractor
    doc                 \* the document fed so far, as its elements nest

config == <<numPages, layout, ALLOW_PROFILE_NAV, card>>
browser == <<shown, pending, cardsUp, pagerUp, pager, lag>>
contexts == <<secondary, focus, driverUp>>
sink == <<written, flushed, flushes, fileOpen>>
loop == <<page_index, elapsed, cards, ci>>
plocals == <<name_el, email>>
nlocals == <<active, next_page_num, link, fb, moved, clicks, raised>>
fcvars == <<fc_counts, fc_out, row, parser, doc>>
vars == <<config, browser, contexts, sink, loop, plocals, nlocals, fcvars, pc>>

(* --------------------------- configuration ----------------------------- *)
\* main sets the global from --wait before it calls scrape_results.
DEFAULT_WAIT_SECONDS == MaxWait

(* ------------------------------ find_cards ------------------------------ *)
candidates == <<".t-Card", ".t-ContentCard", ".t-ContentRow", ".t-ContentRow-wrap",
                ".t-ContentRow-content", ".t-SearchResults-item", ".t-Region .t-Card",
                "li.a-IRR-tableRow">>

NumCandidates == Len(candidates)

\* The empty list: no selector, no element.
NoEls == [sel |-> 0, n |-> 0]

\* A bug that lets a later candidate with as many matches replace the best one.
longer_or_equal(n, best_n) == n >= best_n

\* len(els) > len(best_els)
longer(n, best_n) == n > best_n

\* The for loop of find_cards over candidates[i..]: best is best_els so far,
\* a list being named by the selector that produced it and its length.
RECURSIVE find_cards_from(_, _, _)
find_cards_from(counts, i, best) ==
    IF i > Len(counts) THEN best
    ELSE find_cards_from(counts, i + 1,
            IF longer(counts[i], best.n) THEN [sel |-> i, n |-> counts[i]] ELSE best)

find_cards(counts) == find_cards_from(counts, 1, NoEls)

(* ------------------------------ the pages ------------------------------- *)
\* What parse_card can tell of a card:
\*   link     a title anchor with a link target, no email
\*   empty    no text line (a filler element matched by the selector)
\*   mailto   a title anchor and an a[href^='mailto:'] anchor
\*   plain    text lines only: no heading, no anchor, no email
\*   heading  an h3 title without anchor, no email
\*   token    text lines holding an @stanford.edu token, no heading, no anchor
KindCycle == <<"link", "empty", "mailto", "plain", "heading", "token">>

\* The n kinds that follow position o of the cycle.
Window(o, n) == [i \in 1..n |-> KindCycle[((o + i - 2) % Len(KindCycle)) + 1]]

\* The pages a session is run on: every run of up to MaxCards kinds of the cycle.
Layouts == {Window(o, n) : o \in 1..Len(KindCycle), n \in 0..MaxCards}

Kind(i) == layout[i]

HasNameEl(k) == k \in {"link", "mailto", "heading"}
HasHref(k) == k \in {"link", "mailto"}

\* Matches of each candidate selector on a rendered results page of n cards
\* (APEX list view: every row has one wrap and one content element).
RowMatches(n) == [i \in 1..NumCandidates |-> IF i \in {3, 4, 5} THEN n ELSE 0]
NoMatches == [i \in 1..NumCandidates |-> 0]

candidates_active == <<"strong[aria-current='page']", ".t-Report-paginationText strong",
                       ".t-Report-paginationLink.is-active", ".t-Pagination-item.is-active",
                       ".t-Report-pagination b", ".t-Report-pagination span.current",
                       "table.a-IRR-pagination td span">>

next_candidates == <<"a[aria-label='Next']", ".t-Report-paginationLink--next",
                     "a[title='Next']">>

NumActive == Len(candidates_active)
NumNext == Len(next_candidates)

\* The pagination region: per active-page selector what its first match reads
\* ("absent": no match, "digit": the digits of n, "other": not all digits), the
\* labels that have a link of class t-Report-paginationLink, the labels that have a
\* link inside a t-Report-pagination container, and per Next selector its control.
NoPager == [cascade |-> [i \in 1..NumActive |-> "absent"], n |-> 0,
            classLinks |-> {}, boxLinks |-> {},
            next |-> [i \in 1..NumNext |-> "absent"], nextTarget |-> 0]

\* The pagination region of page p of a directory of np pages (APEX report
\* pagination): the current page marked active, a link to every other page, and
\* a Next link that is disabled on the last page.
PagerOf(p, np) ==
    [NoPager EXCEPT !.cascade[3] = "digit", !.n = p,
                    !.classLinks = (1..np) \ {p}, !.boxLinks = (1..np) \ {p},
                    !.next[2] = IF p < np THEN "ok" ELSE "disabled",
                    !.nextTarget = p + 1]

(* ------------------------------ the browser ----------------------------- *)
\* Handles that hold no element: cards = [], active_page_els = [], no link.
NoCards == [page |-> 0, n |-> 0, stale |-> FALSE]
NoActive == [sel |-> 0, stale |-> FALSE]
NoLink == [target |-> 0, stale |-> FALSE]
Nulls == {NoCards, NoActive, NoLink}

\* The session is over: scrape_results returned, or an exception left main.
Halted == pc \in {"done", "crashed", "failed"}

\* A command on the elements of handle h raises: they were replaced since the
\* handle was taken, or the driver is switched to another context.
Stale(h) == h.stale \/ focus # "main"

\* The elements of h, if it holds any, are removed from the document.
Detach(h) == IF h \notin Nulls THEN [h EXCEPT !.stale = TRUE] ELSE h

\* What driver.find_elements sees: the main document, or a profile page.
SeenMatches == IF focus = "main" /\ cardsUp THEN RowMatches(Len(layout)) ELSE NoMatches
SeenPager == IF focus = "main" THEN pager ELSE NoPager

\* The navigation in flight lands: the old document goes, the new one is blank.
EnvUnload ==
    /\ ~Halted
    /\ pending # 0
    /\ shown' = pending
    /\ pending' = 0
    /\ cardsUp' = FALSE
    /\ pagerUp' = FALSE
    /\ pager' = NoPager
    /\ cards' = Detach(cards)
    /\ active' = Detach(active)
    /\ link' = Detach(link)
    /\ UNCHANGED <<lag, page_index, elapsed, ci, next_page_num, fb, moved, clicks, raised>>
    /\ UNCHANGED <<config, contexts, sink, plocals, fcvars, pc>>

EnvRenderCards ==
    /\ ~Halted
    /\ ~cardsUp
    /\ cardsUp' = TRUE
    /\ UNCHANGED <<shown, pending, pagerUp, pager, lag>>
    /\ UNCHANGED <<config, contexts, sink, loop, plocals, nlocals, fcvars, pc>>

EnvRenderPager ==
    /\ ~Halted
    /\ ~pagerUp
    /\ pagerUp' = TRUE
    /\ pager' = PagerOf(shown, numPages)
    /\ UNCHANGED <<shown, pending, cardsUp, lag>>
    /\ UNCHANGED <<config, contexts, sink, loop, plocals, nlocals, fcvars, pc>>

\* The page replaces its elements by equal ones (a partial refresh).
EnvRerender ==
    /\ ~Halted
    /\ cards' = Detach(cards)
    /\ active' = Detach(active)
    /\ link' = Detach(link)
    /\ UNCHANGED <<browser, page_index, elapsed, ci, next_page_num, fb, moved, clicks, raised>>
    /\ UNCHANGED <<config, contexts, sink, plocals, fcvars, pc>>

(* ---------------------------- scrape_results ---------------------------- *)
Header == [page |-> 0, idx |-> 0]

\* What a step does to the file and the browser. A step that ends scrape_results,
\* by its return or by an exception, leaves the with block of line 290, which
\* closes the file, and runs the finally of main, driver.quit() (lines 364-366).
Leave(ends) ==
    IF ends
    THEN /\ fileOpen' = FALSE
         /\ driverUp' = FALSE
         /\ UNCHANGED <<written, flushed, flushes, secondary, focus>>
    ELSE UNCHANGED <<contexts, sink>>

\* open(csv_path, "w"), the header row, page_index = 1
OpenSink ==
    /\ pc = "open"
    /\ written' = <<Header>>
    /\ page_index' = 1
    /\ elapsed' = 0
    /\ pc' = "discover"
    /\ fileOpen' = TRUE
    /\ UNCHANGED <<flushed, flushes, cards, ci>>
    /\ UNCHANGED <<config, browser, contexts, plocals, nlocals, fcvars>>

\* One pass of the retry loop up to the test of its result: cards = find_cards(driver);
\* an empty list is followed by time.sleep(1).
DiscoverPoll ==
    /\ pc = "discover"
    /\ elapsed < DEFAULT_WAIT_SECONDS
    /\ LET found == find_cards(SeenMatches) IN
        IF found.n > 0
        THEN /\ cards' = [page |-> shown, n |-> found.n, stale |-> FALSE]
             /\ pc' = "check"
             /\ UNCHANGED elapsed
        ELSE /\ cards' = NoCards
             /\ elapsed' = elapsed + 1
             /\ pc' = "discover"
    /\ UNCHANGED <<page_index, ci>>
    /\ UNCHANGED <<config, browser, contexts, sink, plocals, nlocals, fcvars>>

\* _ = cards[0].tag_name: break, or on an exception cards = [] and time.sleep(1)
DiscoverCheck ==
    /\ pc = "check"
    /\ IF Stale(cards)
       THEN /\ cards' = NoCards
            /\ elapsed' = elapsed + 1
            /\ pc' = "discover"
            /\ UNCHANGED ci
       ELSE /\ ci' = 1
            /\ elapsed' = 0
            /\ pc' = "parse"
            /\ UNCHANGED cards
    /\ UNCHANGED page_index
    /\ UNCHANGED <<config, browser, contexts, sink, plocals, nlocals, fcvars>>

\* A bug that ends the session when the wait ends with no card.
DiscoverAbort ==
    /\ pc = "discover"
    /\ elapsed >= DEFAULT_WAIT_SECONDS
    /\ pc' = "crashed"
    /\ Leave(TRUE)
    /\ UNCHANGED <<config, browser, loop, plocals, nlocals, fcvars>>

\* The wait is over with cards = []: the warning, and an empty for loop.
DiscoverTimeout ==
    /\ pc = "discover"
    /\ elapsed >= DEFAULT_WAIT_SECONDS
    /\ ci' = 1
    /\ elapsed' = 0
    /\ pc' = "flush"
    /\ UNCHANGED <<page_index, cards>>
    /\ UNCHANGED <<config, browser, contexts, sink, plocals, nlocals, fcvars>>

\* Where the for loop over cards goes after the card at ci.
AfterCard == IF ci < cards.n THEN "parse" ELSE "flush"

(* ------------------------------ parse_card ------------------------------ *)
\* A bug that goes on with a card that has no text line.
ParseTextKeepsEmpty ==
    /\ pc = "parse"
    /\ pc' = "name"
    /\ UNCHANGED <<config, browser, contexts, sink, loop, plocals, nlocals, fcvars>>

\* Lines 120-134: the scope cascade (its exceptions leave scope_el = card) and
\* safe_text(scope_el); no text line: return None, and the driver skips the card.
ParseText ==
    /\ pc = "parse"
    /\ IF Stale(cards) \/ Kind(ci) = "empty"
       THEN /\ ci' = ci + 1
            /\ pc' = AfterCard
       ELSE /\ pc' = "name"
            /\ UNCHANGED ci
    /\ UNCHANGED <<page_index, elapsed, cards>>
    /\ UNCHANGED <<config, browser, contexts, sink, plocals, nlocals, fcvars>>

\* Lines 137-152: the title cascade, every find_element in a try.
ParseName ==
    /\ pc = "name"
    /\ name_el' = (~Stale(cards) /\ HasNameEl(Kind(ci)))
    /\ pc' = "nametext"
    /\ UNCHANGED email
    /\ UNCHANGED <<config, browser, contexts, sink, loop, nlocals, fcvars>>

\* Line 153: name_el.text, read outside any try.
ParseNameText ==
    /\ pc = "nametext"
    /\ pc' = IF name_el /\ Stale(cards) THEN "crashed" ELSE "email"
    /\ Leave(name_el /\ Stale(cards))
    /\ UNCHANGED <<config, browser, loop, plocals, nlocals, fcvars>>

\* Lines 156-192: department and affiliation (no effect on the session), the
\* mailto anchors of the scope (in a try), then the tokens of text_lines.
ParseEmail ==
    /\ pc = "email"
    /\ email' = ((~Stale(cards) /\ Kind(ci) = "mailto") \/ Kind(ci) = "token")
    /\ pc' = "gate"
    /\ UNCHANGED name_el
    /\ UNCHANGED <<config, browser, contexts, sink, loop, nlocals, fcvars>>

\* A bug that follows the profile link whatever --follow-profile says.
ParseGateIgnoresFlag ==
    /\ pc = "gate"
    /\ pc' = IF ~email /\ name_el
             THEN IF Stale(cards) THEN "crashed"
                  ELSE IF HasHref(Kind(ci)) THEN "prof_open" ELSE "row"
             ELSE "row"
    /\ Leave(pc' = "crashed")
    /\ UNCHANGED <<config, browser, loop, plocals, nlocals, fcvars>>

\* Lines 199-202: the gate of the profile lookup and name_el.get_attribute("href"),
\* read outside any try.
ParseGate ==
    /\ pc = "gate"
    /\ pc' = IF ALLOW_PROFILE_NAV /\ ~email /\ name_el
             THEN IF Stale(cards) THEN "crashed"
                  ELSE IF HasHref(Kind(ci)) THEN "prof_open" ELSE "row"
             ELSE "row"
    /\ Leave(pc' = "crashed")
    /\ UNCHANGED <<config, browser, loop, plocals, nlocals, fcvars>>

(* ------------------------ get_email_from_profile ------------------------ *)
\* Every WebDriver command of the lookup may raise; what get_email_from_profile
\* raises is caught at line 205 of parse_card (email = None).

\* Lines 93-94: current_window_handle and window.open, before the try.
ProfOpen ==
    /\ pc = "prof_open"
    /\ \E ok \in BOOLEAN :
         IF ok
         THEN /\ secondary' = secondary + 1
              /\ pc' = "prof_switch"
              /\ UNCHANGED email
         ELSE /\ email' = FALSE
              /\ pc' = "row"
              /\ UNCHANGED secondary
    /\ UNCHANGED <<focus, driverUp, name_el>>
    /\ UNCHANGED <<config, browser, sink, loop, nlocals, fcvars>>

\* Line 95: switch_to.window(window_handles[-1]), before the try.
ProfSwitch ==
    /\ pc = "prof_switch"
    /\ \E ok \in BOOLEAN :
         IF ok
         THEN /\ focus' = "secondary"
              /\ pc' = "prof_lookup"
              /\ UNCHANGED email
         ELSE /\ email' = FALSE
              /\ pc' = "row"
              /\ UNCHANGED focus
    /\ UNCHANGED <<secondary, driverUp, name_el>>
    /\ UNCHANGED <<config, browser, sink, loop, nlocals, fcvars>>

\* Lines 96-112: the wait and the queries of the profile page; a value or an
\* exception, either way through the finally.
ProfLookup ==
    /\ pc = "prof_lookup"
    /\ \E found \in BOOLEAN : email' = found
    /\ pc' = "prof_close"
    /\ UNCHANGED name_el
    /\ UNCHANGED <<config, browser, contexts, sink, loop, nlocals, fcvars>>

\* Line 114: driver.close(); an exception leaves the finally at once.
ProfClose ==
    /\ pc = "prof_close"
    /\ \E ok \in BOOLEAN :
         IF ok
         THEN /\ secondary' = secondary - 1
              /\ pc' = "prof_restore"
              /\ UNCHANGED email
         ELSE /\ email' = FALSE
              /\ pc' = "row"
              /\ UNCHANGED secondary
    /\ UNCHANGED <<focus, driverUp, name_el>>
    /\ UNCHANGED <<config, browser, sink, loop, nlocals, fcvars>>

\* Line 115: switch_to.window(original_window)
ProfRestore ==
    /\ pc = "prof_restore"
    /\ focus' = "main"
    /\ pc' = "row"
    /\ UNCHANGED <<secondary, driverUp>>
    /\ UNCHANGED <<config, browser, sink, loop, plocals, nlocals, fcvars>>

\* Lines 208-213 and 317-318: the PersonRow, and its writer.writerow.
WriteRow ==
    /\ pc = "row"
    /\ written' = Append(written, [page |-> cards.page, idx |-> ci])
    /\ ci' = ci + 1
    /\ pc' = AfterCard
    /\ name_el' = FALSE
    /\ email' = FALSE
    /\ UNCHANGED <<flushed, flushes, fileOpen, page_index, elapsed, cards>>
    /\ UNCHANGED <<config, browser, contexts, nlocals, fcvars>>

\* A bug that calls click_next_if_available before the flush.
FlushMissing ==
    /\ pc = "flush"
    /\ pc' = "next_active"
    /\ cards' = NoCards
    /\ ci' = 1
    /\ UNCHANGED <<sink, page_index, elapsed>>
    /\ UNCHANGED <<config, browser, contexts, plocals, nlocals, fcvars>>

\* Line 322: f.flush(), then the call of click_next_if_available.
Flush ==
    /\ pc = "flush"
    /\ flushed' = Len(written)
    /\ flushes' = flushes + 1
    /\ pc' = "next_active"
    /\ cards' = NoCards
    /\ ci' = 1
    /\ UNCHANGED <<written, fileOpen, page_index, elapsed>>
    /\ UNCHANGED <<config, browser, contexts, plocals, nlocals, fcvars>>

(* ----------------------- click_next_if_available ------------------------ *)
\* The first selector of candidates_active that matches anything, 0 if none.
FirstActive(pg) ==
    IF \E i \in 1..NumActive : pg.cascade[i] # "absent"
    THEN CHOOSE i \in 1..NumActive :
            /\ pg.cascade[i] # "absent"
            /\ \A j \in 1..(i - 1) : pg.cascade[j] = "absent"
    ELSE 0

\* A click lands unless the model's bound on clicks in flight is used up.
MayClick == pending = 0 \/ lag < MaxLag

\* The browser starts the navigation a click asks for.
Navigate(target) ==
    /\ pending' = target
    /\ lag' = IF pending # 0 THEN lag + 1 ELSE lag
    /\ UNCHANGED <<shown, cardsUp, pagerUp, pager>>

\* click_next_if_available returns v; its locals are gone.
Return(v) ==
    /\ moved' = v
    /\ active' = NoActive
    /\ next_page_num' = 0
    /\ link' = NoLink
    /\ fb' = 1
    /\ pc' = "returned"

\* Lines 230-241: the loop over candidates_active.
NextFindActive ==
    /\ pc = "next_active"
    /\ LET i == FirstActive(SeenPager) IN
        /\ active' = IF i = 0 THEN NoActive ELSE [sel |-> i, stale |-> FALSE]
        /\ pc' = IF i = 0 THEN "fallback" ELSE "next_read"
    /\ next_page_num' = 0
    /\ link' = NoLink
    /\ fb' = 1
    /\ clicks' = 0
    /\ raised' = FALSE
    /\ UNCHANGED moved
    /\ UNCHANGED <<config, browser, contexts, sink, loop, plocals, fcvars>>

\* A bug that gives up when the active indicator cannot be read as a number.
NextReadActiveGivesUp ==
    /\ pc = "next_read"
    /\ IF ~Stale(active) /\ SeenPager.cascade[active.sel] = "digit"
       THEN /\ next_page_num' = SeenPager.n + 1
            /\ pc' = "next_link"
            /\ active' = NoActive
            /\ UNCHANGED <<link, fb, moved>>
       ELSE Return(FALSE)
    /\ raised' = Stale(active)
    /\ UNCHANGED clicks
    /\ UNCHANGED <<config, browser, contexts, sink, loop, plocals, fcvars>>

\* Lines 235 and 243-245: the text of active_page_els[0]; an exception, or a text
\* that is not all digits, leads to the fallback.
NextReadActive ==
    /\ pc = "next_read"
    /\ IF ~Stale(active) /\ SeenPager.cascade[active.sel] = "digit"
       THEN /\ next_page_num' = SeenPager.n + 1
            /\ pc' = "next_link"
       ELSE /\ pc' = "fallback"
            /\ UNCHANGED next_page_num
    /\ raised' = Stale(active)
    /\ active' = NoActive
    /\ UNCHANGED <<link, fb, moved, clicks>>
    /\ UNCHANGED <<config, browser, contexts, sink, loop, plocals, fcvars>>

\* A bug that leaves out the query inside the pagination container.
NextFindLinkByClassOnly ==
    /\ pc = "next_link"
    /\ IF next_page_num \in SeenPager.classLinks
       THEN /\ link' = [target |-> next_page_num, stale |-> FALSE]
            /\ pc' = "next_click"
       ELSE /\ pc' = "fallback"
            /\ UNCHANGED link
    /\ next_page_num' = 0
    /\ UNCHANGED <<active, fb, moved, clicks, raised>>
    /\ UNCHANGED <<config, browser, contexts, sink, loop, plocals, fcvars>>

\* Lines 249-255: the two XPath queries for a link whose text is next_page_num.
NextFindLink ==
    /\ pc = "next_link"
    /\ IF next_page_num \in (SeenPager.classLinks \cup SeenPager.boxLinks)
       THEN /\ link' = [target |-> next_page_num, stale |-> FALSE]
            /\ pc' = "next_click"
       ELSE /\ pc' = "fallback"
            /\ UNCHANGED link
    /\ next_page_num' = 0
    /\ UNCHANGED <<active, fb, moved, clicks, raised>>
    /\ UNCHANGED <<config, browser, contexts, sink, loop, plocals, fcvars>>

\* A bug that does not return after the click on the numeric link.
NextClickLinkGoesOn ==
    /\ pc = "next_click"
    /\ IF Stale(link)
       THEN /\ raised' = TRUE
            /\ UNCHANGED <<clicks, browser>>
       ELSE /\ MayClick
            /\ Navigate(link.target)
            /\ clicks' = clicks + 1
            /\ UNCHANGED raised
    /\ pc' = "fallback"
    /\ link' = NoLink
    /\ UNCHANGED <<moved, active, next_page_num, fb>>
    /\ UNCHANGED <<config, contexts, sink, loop, plocals, fcvars>>

\* Lines 257-262: next_links[0].click() and return True; an exception of the
\* click is caught at line 261 and leads to the fallback.
NextClickLink ==
    /\ pc = "next_click"
    /\ IF Stale(link)
       THEN /\ pc' = "fallback"
            /\ link' = NoLink
            /\ raised' = TRUE
            /\ UNCHANGED <<moved, clicks, browser, active, next_page_num, fb>>
       ELSE /\ MayClick
            /\ Navigate(link.target)
            /\ clicks' = clicks + 1
            /\ Return(TRUE)
            /\ UNCHANGED raised
    /\ UNCHANGED <<config, contexts, sink, loop, plocals, fcvars>>

\* Lines 270-273: btns of the next fallback selector; none: continue.
FallbackFind ==
    /\ pc = "fallback"
    /\ fb <= NumNext
    /\ IF SeenPager.next[fb] = "absent"
       THEN /\ fb' = fb + 1
            /\ UNCHANGED <<link, pc>>
       ELSE /\ link' = [target |-> SeenPager.nextTarget, stale |-> FALSE]
            /\ pc' = "fb_click"
            /\ UNCHANGED fb
    /\ UNCHANGED <<active, next_page_num, moved, clicks, raised>>
    /\ UNCHANGED <<config, browser, contexts, sink, loop, plocals, fcvars>>

\* Lines 274-283: is_displayed, is_enabled and click of the control, in a try;
\* an exception or a control that is hidden or disabled: continue.
FallbackClick ==
    /\ pc = "fb_click"
    /\ IF ~Stale(link) /\ SeenPager.next[fb] = "ok"
       THEN /\ MayClick
            /\ Navigate(link.target)
            /\ clicks' = clicks + 1
            /\ Return(TRUE)
            /\ UNCHANGED raised
       ELSE /\ fb' = fb + 1
            /\ link' = NoLink
            /\ pc' = "fallback"
            /\ raised' = (raised \/ Stale(link))
            /\ UNCHANGED <<moved, clicks, browser, active, next_page_num>>
    /\ UNCHANGED <<config, contexts, sink, loop, plocals, fcvars>>

\* Lines 285-286: no selector is left: return False.
FallbackNone ==
    /\ pc = "fallback"
    /\ fb > NumNext
    /\ Return(FALSE)
    /\ UNCHANGED <<clicks, raised>>
    /\ UNCHANGED <<config, browser, contexts, sink, loop, plocals, fcvars>>

\* Lines 324-331: break on False, which ends scrape_results and main; else
\* time.sleep(1) and page_index += 1.
Advance ==
    /\ pc = "returned"
    /\ IF moved
       THEN /\ page_index' = page_index + 1
            /\ elapsed' = 0
            /\ pc' = "discover"
       ELSE /\ pc' = "done"
            /\ UNCHANGED <<page_index, elapsed>>
    /\ moved' = FALSE
    /\ clicks' = 0
    /\ raised' = FALSE
    /\ Leave(~moved)
    /\ UNCHANGED <<cards, ci, active, next_page_num, link, fb>>
    /\ UNCHANGED <<config, browser, plocals, fcvars>>

(* ----------------------- the fields of a PersonRow ----------------------- *)
\* Lines 131-176 of parse_card as a function of what the card holds: the lines
\* of the text of the scope, the text of the first element each title selector
\* matches, and the sub-lines of the description element.
title_selectors == <<"a.t-Card-title", ".t-Card-title a", ".t-ContentCard-title a",
                     ".t-ContentRow-content h3 a", ".t-ContentRow-content h3",
                     "h3 a", "h3", "a">>

NumTitles == Len(title_selectors)

\* Lines of text as they are after strip(); "" is a line that strips to nothing.
LineTexts == {"Jane Doe", "Dept of X", "Student - Foo"}
RawLines == LineTexts \cup {""}

\* The text of a matched title element; "absent": the selector matches nothing.
TitleTexts == {"", "Jane Doe"}

\* Which of " - ", "Student", "Faculty", "Staff" a line contains.
Markers(ln) == IF ln = "Student - Foo" THEN {" - ", "Student"} ELSE {}

SeqsUpTo(S, n) == UNION {[1..k -> S] : k \in 0..n}

NoTitles == [i \in 1..NumTitles |-> "absent"]
NoDesc == [present |-> FALSE, lines |-> <<>>]
NoCard == [titles |-> NoTitles, lines |-> <<>>, desc |-> NoDesc]

Titles == {t \in [1..NumTitles -> TitleTexts \cup {"absent"}] :
            Cardinality({i \in 1..NumTitles : t[i] # "absent"}) <= MaxTitles}

\* No .t-ContentRow-desc element, or one with up to two non-empty sub-lines.
Descs == {NoDesc} \cup {[present |-> TRUE, lines |-> d] :
                          d \in SeqsUpTo({"Dept of X", "Student - Foo"}, 2)}

NotParsed == [state |-> "not_run", name |-> "", affiliation |-> "", department |-> ""]
None == [state |-> "none", name |-> "", affiliation |-> "", department |-> ""]

NonBlank(ln) == ln # ""

\* Line 131: the lines of the scope text that are not blank.
text_lines(c) == SelectSeq(c.lines, NonBlank)

\* Lines 137-152: the loop breaks at the first selector that matches an element
\* (0: name_el is None).
name_el_of(c) ==
    IF \E i \in 1..NumTitles : c.titles[i] # "absent"
    THEN CHOOSE i \in 1..NumTitles :
            /\ c.titles[i] # "absent"
            /\ \A j \in 1..(i - 1) : c.titles[j] = "absent"
    ELSE 0

\* Line 153
name_of(c) ==
    LET el == name_el_of(c) IN
    IF el # 0 /\ c.titles[el] # "" THEN c.titles[el] ELSE text_lines(c)[1]

\* Line 156
rest_of(c) == SelectSeq(text_lines(c), LAMBDA ln : ln # name_of(c))

\* s[i], or "" where the code leaves the field at its initial "".
At(s, i) == IF i <= Len(s) THEN s[i] ELSE ""

\* Lines 160-171: the description element if there is one, the remaining lines
\* only in the except clause.
department_of(c) ==
    IF c.desc.present THEN At(c.desc.lines, 1) ELSE At(rest_of(c), 1)

first_affiliation(c) ==
    IF c.desc.present THEN At(c.desc.lines, 2) ELSE At(rest_of(c), 2)

\* Lines 173-176: for ln in rest[1:3], the second and third remaining lines.
refined(rest, affiliation) ==
    LET hits == {i \in 2..3 : i <= Len(rest) /\ Markers(rest[i]) # {}} IN
    IF hits = {} THEN affiliation
    ELSE rest[CHOOSE i \in hits : \A j \in hits : i <= j]

\* Lines 131-176 and 208-213
parse_fields(c) ==
    IF text_lines(c) = <<>> THEN None
    ELSE [state |-> "row", name |-> name_of(c),
          affiliation |-> refined(rest_of(c), first_affiliation(c)),
          department |-> department_of(c)]

\* __init__ (src/parse_contacts.py lines 15-23); a label that is None and one
\* that is empty are both "".
NewParser ==
    [in_p |-> FALSE, in_contact_p |-> FALSE, in_anchor |-> FALSE,
     current_anchor_text_parts |-> <<>>, names_with_clubs |-> <<>>,
     group_label_stack |-> <<>>, current_club |-> ""]

\* What has been fed, read as HTML: events fed, whether a <p> is open (a new
\* <p> ends the one before), whether "Contact:" was seen in the open <p>,
\* whether an <a> is open and began in a <p> after its "Contact:", and whether
\* a pair was recorded at the end of an <a> that did not.
NoDoc == [fed |-> 0, in_p |-> FALSE, contact |-> FALSE, a_ok |-> FALSE, bad |-> FALSE]

(* --------------------------- the specification -------------------------- *)
NotRun == [sel |-> -1, n |-> -1]

\* The scraper before scrape_results has run any statement, in a browser that
\* has one context and nothing in flight.
Idle ==
    /\ pending = 0
    /\ lag = 0
    /\ secondary = 0
    /\ focus = "main"
    /\ driverUp = TRUE
    /\ fileOpen = FALSE
    /\ page_index = 0
    /\ elapsed = 0
    /\ cards = NoCards
    /\ ci = 1
    /\ written = <<>>
    /\ flushed = 0
    /\ flushes = 0
    /\ name_el = FALSE
    /\ email = FALSE
    /\ active = NoActive
    /\ next_page_num = 0
    /\ link = NoLink
    /\ fb = 1
    /\ moved = FALSE
    /\ clicks = 0
    /\ raised = FALSE

\* The same with the first page of results displayed.
Fresh ==
    /\ shown = 1
    /\ cardsUp = TRUE
    /\ pagerUp = TRUE
    /\ Idle

\* The state when main calls scrape_results: the user has pressed Enter with the
\* first page of results visible.
Init ==
    /\ numPages \in 1..MaxPages
    /\ layout \in Layouts
    /\ ALLOW_PROFILE_NAV \in BOOLEAN
    /\ pager = PagerOf(1, numPages)
    /\ pc = "open"
    /\ Fresh
    /\ fc_counts = NoMatches
    /\ fc_out = NotRun
    /\ card = NoCard
    /\ row = NotParsed
    /\ parser = NewParser
    /\ doc = NoDoc

Env == EnvUnload \/ EnvRenderCards \/ EnvRenderPager \/ EnvRerender

Discover == DiscoverPoll \/ DiscoverCheck \/ DiscoverTimeout

parse_card == ParseText \/ ParseName \/ ParseNameText \/ ParseEmail \/ ParseGate

get_email_from_profile == ProfOpen \/ ProfSwitch \/ ProfLookup \/ ProfClose \/ ProfRestore

click_next_if_available ==
    \/ NextFindActive \/ NextReadActive \/ NextFindLink \/ NextClickLink
    \/ FallbackFind \/ FallbackClick \/ FallbackNone

scrape_results ==
    \/ OpenSink \/ Discover \/ parse_card \/ get_email_from_profile
    \/ WriteRow \/ Flush \/ click_next_if_available \/ Advance

Next == scrape_results \/ Env

Spec == Init /\ [][Next]_vars

\* The scraper runs as long as it can, and the browser finishes what it started:
\* a navigation lands, a blank document renders.
FairSpec ==
    /\ Spec
    /\ WF_vars(scrape_results)
    /\ WF_vars(EnvUnload)
    /\ WF_vars(EnvRenderCards)
    /\ WF_vars(EnvRenderPager)

(* -------------------------- find_cards on its own ----------------------- *)
\* One call of find_cards on a document with any number of matches, up to
\* MaxMatch, of each candidate selector.
FindCardsCall ==
    /\ pc = "find_cards"
    /\ fc_out' = find_cards(fc_counts)
    /\ pc' = "found"
    /\ UNCHANGED <<fc_counts, row, parser, doc>>
    /\ UNCHANGED <<config, browser, contexts, sink, loop, plocals, nlocals>>

InitFind ==
    /\ numPages = 1
    /\ layout = <<>>
    /\ ALLOW_PROFILE_NAV = FALSE
    /\ pager = NoPager
    /\ pc = "find_cards"
    /\ Fresh
    /\ fc_counts \in [1..NumCandidates -> 0..MaxMatch]
    /\ fc_out = NotRun
    /\ card = NoCard
    /\ row = NotParsed
    /\ parser = NewParser
    /\ doc = NoDoc

SpecFind == InitFind /\ [][FindCardsCall]_vars

(* ------------------- click_next_if_available on its own ----------------- *)
\* Cascades of the active-page selectors with at most two selectors matching.
Cascades ==
    {c \in [1..NumActive -> {"absent", "digit", "other"}] :
        Cardinality({i \in 1..NumActive : c[i] # "absent"}) <= 2}

\* A pagination region that reads n, with or without a link to n + 1 of the
\* pagination link class and inside a pagination container, and with the
\* controls nx of the Next selectors.
PagerWith(c, n, byClass, inBox, nx) ==
    [cascade |-> c, n |-> n,
     classLinks |-> IF byClass THEN {n + 1} ELSE {},
     boxLinks |-> IF inBox THEN {n + 1} ELSE {},
     next |-> nx, nextTarget |-> n + 1]

\* One call of click_next_if_available on any such page, after the flush of an
\* empty first page; the page may replace its elements during the call.
InitNext ==
    /\ numPages = MaxPages + 1
    /\ layout = <<>>
    /\ ALLOW_PROFILE_NAV = FALSE
    /\ \E c \in Cascades, n \in 1..MaxPages, byClass \in BOOLEAN, inBox \in BOOLEAN,
          nx \in [1..NumNext -> {"absent", "hidden", "disabled", "ok"}] :
            pager = PagerWith(c, n, byClass, inBox, nx)
    /\ pc = "next_active"
    /\ Fresh
    /\ fc_counts = NoMatches
    /\ fc_out = NotRun
    /\ card = NoCard
    /\ row = NotParsed
    /\ parser = NewParser
    /\ doc = NoDoc

NextNext == click_next_if_available \/ EnvRerender

SpecNext == InitNext /\ [][NextNext]_vars

(* -------------------------- parse_card on its own ----------------------- *)
\* One call of parse_card on any card.
ParseFields ==
    /\ pc = "card"
    /\ row' = parse_fields(card)
    /\ pc' = "parsed"
    /\ UNCHANGED <<fc_counts, fc_out, parser, doc>>
    /\ UNCHANGED <<config, browser, contexts, sink, loop, plocals, nlocals>>

InitCard ==
    /\ numPages = 1
    /\ layout = <<>>
    /\ ALLOW_PROFILE_NAV = FALSE
    /\ pager = NoPager
    /\ pc = "card"
    /\ Fresh
    /\ fc_counts = NoMatches
    /\ fc_out = NotRun
    /\ card \in [titles : Titles, lines : SeqsUpTo(RawLines, MaxLines), desc : Descs]
    /\ row = NotParsed
    /\ parser = NewParser
    /\ doc = NoDoc

SpecCard == InitCard /\ [][ParseFields]_vars

(* ------------------------- ContactNameExtractor ------------------------- *)
Tags == {"p", "a", "div"}
Labels == {"", "Club"}
Data == {"Contact:", "Ann", " "}

\* The start tags fed: <p>, <a>, a <div> that is no group, and a group <div>
\* with and without a label.
StartTags ==
    {[tag |-> t, group |-> FALSE, label |-> ""] : t \in Tags}
        \cup {[tag |-> "div", group |-> TRUE, label |-> l] : l \in Labels}

\* "contact:" in data.lower()
HasContact(data) == data = "Contact:"

\* "".join(parts).strip(), a text being the sequence of its pieces: the pieces
\* of white space at both ends go.
RECURSIVE lstrip(_)
lstrip(parts) ==
    IF parts # <<>> /\ Head(parts) = " " THEN lstrip(Tail(parts)) ELSE parts

RECURSIVE rstrip(_)
rstrip(parts) ==
    IF parts # <<>> /\ parts[Len(parts)] = " "
    THEN rstrip(SubSeq(parts, 1, Len(parts) - 1)) ELSE parts

strip(parts) == rstrip(lstrip(parts))

\* _update_current_club: the label of the nearest group that has one.
RECURSIVE _update_current_club(_)
_update_current_club(stack) ==
    IF stack = <<>> THEN ""
    ELSE IF stack[Len(stack)] # "" THEN stack[Len(stack)]
    ELSE _update_current_club(SubSeq(stack, 1, Len(stack) - 1))

\* handle_starttag(tag, attrs); group and label are role == "group" and the
\* aria-label of a div.
handle_starttag(tag, group, label) ==
    /\ pc = "feed"
    /\ doc.fed < MaxEvents
    /\ parser' =
         LET stack == Append(parser.group_label_stack, IF group THEN label ELSE "")
             p1 == IF tag = "div"
                   THEN [parser EXCEPT !.group_label_stack = stack,
                                       !.current_club = IF group
                                                        THEN _update_current_club(stack)
                                                        ELSE @]
                   ELSE parser
         IN  IF tag = "p" THEN [p1 EXCEPT !.in_p = TRUE]
             ELSE IF tag = "a" /\ parser.in_contact_p
             THEN [p1 EXCEPT !.in_anchor = TRUE, !.current_anchor_text_parts = <<>>]
             ELSE p1
    /\ doc' = [doc EXCEPT !.fed = @ + 1,
                          !.in_p = IF tag = "p" THEN TRUE ELSE @,
                          !.contact = IF tag = "p" THEN FALSE ELSE @,
                          !.a_ok = IF tag = "a" THEN doc.in_p /\ doc.contact ELSE @]
    /\ UNCHANGED <<fc_counts, fc_out, row>>
    /\ UNCHANGED <<config, browser, contexts, sink, loop, plocals, nlocals, pc>>

\* handle_endtag(tag)
handle_endtag(tag) ==
    /\ pc = "feed"
    /\ doc.fed < MaxEvents
    /\ LET text == strip(parser.current_anchor_text_parts)
           records == tag = "a" /\ parser.in_anchor /\ text # <<>>
       IN  /\ parser' =
                IF tag = "a" /\ parser.in_anchor
                THEN [parser EXCEPT
                        !.names_with_clubs =
                            IF text # <<>> THEN Append(@, <<text, parser.current_club>>)
                            ELSE @,
                        !.in_anchor = FALSE,
                        !.current_anchor_text_parts = <<>>]
                ELSE IF tag = "p" /\ parser.in_p
                THEN [parser EXCEPT !.in_p = FALSE, !.in_contact_p = FALSE]
                ELSE IF tag = "div" /\ parser.group_label_stack # <<>>
                THEN LET stack == SubSeq(parser.group_label_stack, 1,
                                         Len(parser.group_label_stack) - 1)
                     IN  [parser EXCEPT !.group_label_stack = stack,
                                        !.current_club = _update_current_club(stack)]
                ELSE parser
           /\ doc' = [doc EXCEPT !.fed = @ + 1,
                                 !.in_p = IF tag = "p" THEN FALSE ELSE @,
                                 !.contact = IF tag = "p" THEN FALSE ELSE @,
                                 !.a_ok = IF tag = "a" THEN FALSE ELSE @,
                                 !.bad = @ \/ (records /\ ~doc.a_ok)]
    /\ UNCHANGED <<fc_counts, fc_out, row>>
    /\ UNCHANGED <<config, browser, contexts, sink, loop, plocals, nlocals, pc>>

\* handle_data(data)
handle_data(data) ==
    /\ pc = "feed"
    /\ doc.fed < MaxEvents
    /\ parser' = [parser EXCEPT
                    !.in_contact_p = IF parser.in_p /\ ~parser.in_contact_p /\ HasContact(data)
                                     THEN TRUE ELSE @,
                    !.current_anchor_text_parts = IF parser.in_anchor
                                                  THEN Append(@, data) ELSE @]
    /\ doc' = [doc EXCEPT !.fed = @ + 1,
                          !.contact = @ \/ (doc.in_p /\ HasContact(data))]
    /\ UNCHANGED <<fc_counts, fc_out, row>>
    /\ UNCHANGED <<config, browser, contexts, sink, loop, plocals, nlocals, pc>>

\* parser.feed(html_content): the events of a document, one at a time.
feed ==
    \/ \E st \in StartTags : handle_starttag(st.tag, st.group, st.label)
    \/ \E tag \in Tags : handle_endtag(tag)
    \/ \E data \in Data : handle_data(data)

\* extract_contact_names_with_clubs: a new parser, nothing fed.
InitContacts ==
    /\ numPages = 1
    /\ layout = <<>>
    /\ ALLOW_PROFILE_NAV = FALSE
    /\ pager = NoPager
    /\ pc = "feed"
    /\ Fresh
    /\ fc_counts = NoMatches
    /\ fc_out = NotRun
    /\ card = NoCard
    /\ row = NotParsed
    /\ parser = NewParser
    /\ doc = NoDoc

SpecContacts == InitContacts /\ [][feed]_vars

(* --------------------------------- main --------------------------------- *)
\* Line 352: driver.get(args.url), before the try of line 361; an exception
\* leaves main. Otherwise the user brings up the first page of results and
\* presses Enter (lines 353-360).
MainGet ==
    /\ pc = "get"
    /\ \E ok \in BOOLEAN :
         IF ok
         THEN /\ shown' = 1
              /\ pager' = PagerOf(1, numPages)
              /\ pc' = "open"
         ELSE /\ pc' = "failed"
              /\ UNCHANGED <<shown, pager>>
    /\ UNCHANGED <<pending, cardsUp, pagerUp, lag>>
    /\ UNCHANGED <<config, contexts, sink, loop, plocals, nlocals, fcvars>>

\* The state after launch_browser (line 349): a browser with an empty tab.
InitMain ==
    /\ numPages \in 1..MaxPages
    /\ layout \in Layouts
    /\ ALLOW_PROFILE_NAV \in BOOLEAN
    /\ shown = 0
    /\ cardsUp = TRUE
    /\ pagerUp = TRUE
    /\ pager = NoPager
    /\ pc = "get"
    /\ Idle
    /\ fc_counts = NoMatches
    /\ fc_out = NotRun
    /\ card = NoCard
    /\ row = NotParsed
    /\ parser = NewParser
    /\ doc = NoDoc

main == MainGet \/ scrape_results

NextMain == main \/ Env

SpecMain == InitMain /\ [][NextMain]_vars

(* ------------------------------ properties ------------------------------ *)
Extractable == {i \in 1..Len(layout) : Kind(i) # "empty"}

IsExtractable(r) == r.idx \in Extractable

\* The rows of page p: one per card that has text, in the order of the cards.
PageRows(p) == SelectSeq([i \in 1..Len(layout) |-> [page |-> p, idx |-> i]], IsExtractable)

\* The header and the rows of pages 1..p.
RECURSIVE RowsUpTo(_)
RowsUpTo(p) == IF p = 0 THEN <<Header>> ELSE RowsUpTo(p - 1) \o PageRows(p)

InClickNext == pc \in {"next_active", "next_read", "next_link", "next_click",
                       "fallback", "fb_click"}

InProfile == pc \in {"prof_switch", "prof_lookup", "prof_close", "prof_restore"}

\* C1: a session that has ended has written the header and exactly one row per
\* card with text of every page, each page once and none missing, and has
\* flushed once per page.
C1_RoundTrip ==
    pc = "done" => (written = RowsUpTo(numPages) /\ flushes = numPages)

\* C2: the loop of scrape_results is left only by click_next_if_available
\* returning False: a True return increments page_index and goes back to
\* Discover, a False return ends the session, and nothing else ends it.
C2_OnlyFalseEndsLoop ==
    [][/\ (pc = "returned" /\ pc' # pc) =>
            IF moved THEN pc' = "discover" /\ page_index' = page_index + 1
                     ELSE pc' = "done"
       /\ (~Halted /\ Halted') => (pc = "returned" /\ ~moved)
       /\ Halted => UNCHANGED <<pc, page_index, sink>>]_vars

\* C3: no Discover wait lasts longer than its maximum, and every session
\* eventually reaches the terminal state, the one entered when
\* click_next_if_available returns False.
C3_SessionEnds ==
    [](elapsed <= DEFAULT_WAIT_SECONDS) /\ <>(pc = "done")

\* C4: click_next_if_available returns False only on the rendered last page of
\* the directory, with no navigation in flight.
C4_FalseOnlyAtLastPage ==
    (pc = "returned" /\ ~moved) => (pending = 0 /\ shown = numPages /\ pagerUp)

\* C5: no exception of a DOM query reaches the session driver.
C5_NoExceptionEscapes ==
    pc # "crashed"

\* C6: outside get_email_from_profile no secondary context is open and the
\* driver is switched to the original context.
C6_SecondaryContextClosed ==
    ~InProfile => (secondary = 0 /\ focus = "main")

\* C7: a Discover wait that runs out ends with cards = [], writes no row, and is
\* followed by the flush and by the call of click_next_if_available.
C7_EmptyPageGoesOn ==
    [][/\ (pc = "discover" /\ elapsed >= DEFAULT_WAIT_SECONDS /\ pc' # pc) =>
            (pc' = "flush" /\ cards' = NoCards /\ written' = written)
       /\ (pc = "flush" /\ cards.n = 0 /\ pc' # pc) =>
            /\ pc' = "next_active"
            /\ written' = written
            /\ flushed' = Len(written)
            /\ flushes' = flushes + 1]_vars

\* The second page is about to be flushed after a wait that ran out, in a
\* directory whose pages have cards.
C7_Witness ==
    /\ pc = "flush"
    /\ cards.n = 0
    /\ page_index = 2
    /\ layout # <<>>

\* C8: the header is the first row, and during every call of
\* click_next_if_available all rows written so far are flushed, by one flush
\* per page so far.
C8_FlushedBeforeAdvance ==
    /\ written # <<>> => written[1] = Header
    /\ InClickNext => (flushed = Len(written) /\ flushes = page_index)

\* click_next_if_available is called on the second page with rows of both pages
\* written.
C8_Witness ==
    /\ pc = "next_active"
    /\ page_index = 2
    /\ \E i, j \in 1..Len(written) : written[i].page = 1 /\ written[j].page = 2

MaxCount == CHOOSE m \in 0..MaxMatch :
                /\ \E i \in 1..NumCandidates : fc_counts[i] = m
                /\ \A i \in 1..NumCandidates : fc_counts[i] <= m

\* C9: find_cards returns the list of the earliest candidate among those with
\* the most matches, and the empty list exactly when no candidate matches.
C9_MostMatchesEarliestWins ==
    fc_out # NotRun =>
        /\ fc_out = NoEls <=> \A i \in 1..NumCandidates : fc_counts[i] = 0
        /\ fc_out # NoEls =>
            /\ fc_out.sel \in 1..NumCandidates
            /\ fc_out.n = fc_counts[fc_out.sel]
            /\ fc_out.n = MaxCount
            /\ \A j \in 1..(fc_out.sel - 1) : fc_counts[j] < MaxCount

\* find_cards has returned the earlier of two candidates tied at the most
\* matches.
C9_Witness ==
    /\ fc_out # NotRun
    /\ fc_out # NoEls
    /\ \E j \in (fc_out.sel + 1)..NumCandidates : fc_counts[j] = fc_out.n

\* The active indicator reads a number and a link to the next number is inside
\* the pagination container.
NumericPage ==
    /\ FirstActive(pager) # 0
    /\ pager.cascade[FirstActive(pager)] = "digit"
    /\ (pager.n + 1) \in pager.boxLinks

\* No active indicator and no Next control that is displayed and enabled.
DeadEndPage ==
    /\ FirstActive(pager) = 0
    /\ \A i \in 1..NumNext : pager.next[i] # "ok"

\* C10: on a page whose active indicator reads N and that has a link N+1 inside
\* the pagination container, a call in which no command raises clicks that link
\* and returns True; on a page with no active indicator and no visible, enabled
\* Next control the call clicks nothing and returns False.
C10_NumericAdvanceAndDeadEnd ==
    pc = "returned" =>
        /\ (NumericPage /\ ~raised) => (moved /\ clicks = 1 /\ pending = pager.n + 1)
        /\ DeadEndPage => (~moved /\ clicks = 0 /\ pending = 0)

\* A call has returned True on a page whose only link to N+1 is found by the
\* query inside the pagination container.
C10_Witness ==
    /\ pc = "returned"
    /\ NumericPage
    /\ pager.classLinks = {}
    /\ ~raised
    /\ moved

\* The numeric step of click_next_if_available (lines 218-262).
InNumericStep == pc \in {"next_active", "next_read", "next_link", "next_click"}

InFallback == pc \in {"fallback", "fb_click"}

\* C11: the numeric step ends either by its one click and a True return or in
\* the fallback, started at its first selector with nothing clicked; the
\* fallback passes a selector only when that selector gave no click, and False
\* is returned only from the fallback with every selector passed.
C11_NumericFailureFallsBack ==
    [][/\ (InNumericStep /\ ~InNumericStep') =>
            \/ pc' = "fallback" /\ fb' = 1 /\ clicks' = 0 /\ pending' = pending
            \/ pc = "next_click" /\ pc' = "returned" /\ moved' /\ clicks' = 1
       /\ (InFallback /\ InFallback') =>
            /\ fb' \in {fb, fb + 1}
            /\ fb' = fb + 1 => (clicks' = 0 /\ pending' = pending)
       /\ (pc # "returned" /\ pc' = "returned" /\ ~moved') =>
            (pc = "fallback" /\ fb = NumNext + 1 /\ clicks = 0)]_vars

\* A call has returned True by a click on a Next control after an exception in
\* the numeric step of a page that has the numeric link.
C11_Witness ==
    /\ pc = "returned"
    /\ moved
    /\ raised
    /\ NumericPage
    /\ pending = pager.nextTarget

\* parse_card is running for the card at ci.
InExtract == pc \in {"parse", "name", "nametext", "email", "gate", "prof_open",
                     "prof_switch", "prof_lookup", "prof_close", "prof_restore", "row"}

\* Rows written since the last flush, the header not counted.
RowsOfPage == Len(written) - (IF flushed = 0 THEN 1 ELSE flushed)

\* C12: a card with no text line is skipped with the sink unchanged, no row of
\* the output belongs to such a card, and every card of the list contributes
\* at most one row: a row is written only at the end of parse_card, once.
C12_EmptyCardNoRow ==
    /\ [](InExtract => RowsOfPage <= ci - 1)
    /\ [](\A i \in 2..Len(written) : Kind(written[i].idx) # "empty")
    /\ [][/\ (pc = "parse" /\ Kind(ci) = "empty" /\ pc' # pc) =>
               (sink' = sink /\ ci' = ci + 1 /\ pc' = AfterCard)
          /\ (written' # written) =>
               \/ pc = "open"
               \/ /\ pc = "row"
                  /\ written' = Append(written, [page |-> cards.page, idx |-> ci])
                  /\ ci' = ci + 1]_vars

\* A page of two cards, the first without text, is about to be flushed with
\* one row.
C12_Witness ==
    /\ pc = "flush"
    /\ cards.n = 2
    /\ Kind(1) = "empty"
    /\ RowsOfPage = 1

\* C13: a secondary context is opened only by the lookup for a card that has a
\* name element with a link target and for which neither the mailto anchors
\* nor the text tokens gave an email, with profile navigation enabled; with
\* it disabled no lookup is ever entered and no secondary context exists.
C13_SecondaryOnlyWhenEnabled ==
    /\ []((pc \in {"prof_open", "prof_switch", "prof_lookup", "prof_close", "prof_restore"}
            \/ secondary > 0 \/ focus # "main") => ALLOW_PROFILE_NAV)
    /\ [](pc = "prof_open" =>
            /\ ~email
            /\ name_el
            /\ HasHref(Kind(ci))
            /\ Kind(ci) \notin {"mailto", "token"})
    /\ [][secondary' > secondary => (pc = "prof_open" /\ secondary' = secondary + 1)]_vars

\* The lookup has opened a secondary context for a card with a title link and
\* no email.
C13_Witness ==
    /\ pc = "prof_switch"
    /\ secondary = 1
    /\ Kind(ci) = "link"

\* C14: when a session has ended, by the return of scrape_results or by an
\* exception at any point after the browser was launched, the output file is
\* closed with every row written and the browser has been quit.
C14_TornDownAtEnd ==
    Halted => (~fileOpen /\ ~driverUp)

\* The name the title cascade gives when it goes on past elements without
\* text: the text of the first selector, in order, whose element has text, and
\* the first text line when there is none.
NameByFirstText(c) ==
    IF \E i \in 1..NumTitles : c.titles[i] \notin {"absent", ""}
    THEN c.titles[CHOOSE i \in 1..NumTitles :
                    /\ c.titles[i] \notin {"absent", ""}
                    /\ \A j \in 1..(i - 1) : c.titles[j] \in {"absent", ""}]
    ELSE text_lines(c)[1]

\* C15: the name of a row is the text of the first title selector, in order,
\* whose element has text, an earlier element without text not stopping the
\* cascade; with no such selector it is the first text line; it is never empty.
C15_NameFirstNonEmptyTitle ==
    row.state = "row" => (row.name = NameByFirstText(card) /\ row.name # "")

\* The first of the first two remaining lines that holds a marker, 0 if none.
FirstMarked(rest) ==
    LET hits == {i \in 1..2 : i <= Len(rest) /\ Markers(rest[i]) # {}} IN
    IF hits = {} THEN 0 ELSE CHOOSE i \in hits : \A j \in hits : i <= j

\* C16: when one of the first two lines after the name holds " - ", "Student",
\* "Faculty" or "Staff", the first such line is the affiliation of the row,
\* also when it is the line right after the name.
C16_AffiliationFromFirstTwoLines ==
    (row.state = "row" /\ FirstMarked(rest_of(card)) # 0) =>
        row.affiliation = rest_of(card)[FirstMarked(rest_of(card))]

\* C17: department and affiliation come from the description element only when
\* it is there with at least one sub-line; otherwise department is the first
\* remaining line and affiliation, where the refinement finds no marked line,
\* the second.
C17_DescOnlyWithSubLines ==
    row.state = "row" =>
        LET useDesc == card.desc.present /\ Len(card.desc.lines) >= 1
            src == IF useDesc THEN card.desc.lines ELSE rest_of(card)
        IN  /\ row.department = At(src, 1)
            /\ refined(rest_of(card), "") = "" => row.affiliation = At(src, 2)

\* C18: every pair recorded comes from an <a> that began inside a <p> after
\* "Contact:" was seen in that same <p>; a <p> that begins where a contact <p>
\* was left open is another <p>.
C18_AnchorsOfContactParagraphOnly ==
    ~doc.bad

\* C19: the cards handed to parse_card on the k-th pass of the loop are cards
\* of page k: cards of the page before, still displayed, are not accepted.
C19_CardsOfTheNewPage ==
    (InExtract /\ cards.n > 0) => cards.page = page_index

\* C20: a call of click_next_if_available makes at most one click that takes
\* effect and returns True exactly when it made one; the fallback is only
\* running while nothing has been clicked; the call changes the page by
\* nothing but that click, so a call that returns False has changed nothing.
C20_AtMostOneClick ==
    /\ [](clicks <= 1)
    /\ [](InFallback => clicks = 0)
    /\ [](pc = "returned" => (moved <=> clicks = 1))
    /\ []((pc = "returned" /\ ~moved) => (pending = 0 /\ lag = 0))
    /\ [][browser' # browser =>
            /\ pc \in {"next_click", "fb_click"}
            /\ pc' = "returned"
            /\ moved'
            /\ clicks' = clicks + 1
            /\ pending' = link.target
            /\ UNCHANGED <<shown, cardsUp, pagerUp, pager>>]_vars

\* A call has returned True after its one click, on the numeric link, on a
\* page that also has a Next control that could have been clicked.
C20_Witness ==
    /\ pc = "returned"
    /\ moved
    /\ clicks = 1
    /\ ~raised
    /\ NumericPage
    /\ \E i \in 1..NumNext : pager.next[i] = "ok"

====
